---- MODULE Spec2Model ----
(***************************************************************************)
(* BimodalDRQNAlgorithm (src/code/algorithm/bimodal_drqn.py): greedy       *)
(* action selection, the temporal-difference update of the policy network  *)
(* and the transition plumbing, together with the collaborators the class  *)
(* calls (replay buffer, value network, optimizer, logger, control loop).  *)
(*                                                                         *)
(* Numbers: Q-values, rewards and hidden states are small integers.        *)
(* gamma is the fraction GammaNum / GammaDen, and every quantity on the    *)
(* scale of a TD target is carried multiplied by GammaDen.                 *)
(* Python indices are 0-based; sequences here are 1-based, and At0 does    *)
(* the translation.                                                        *)
(***************************************************************************)
EXTENDS Integers, Sequences, FiniteSets, TLC

\* ---------------------------------------------------------------- bounds
MaxBatch == 2
MaxWindow == 2
MaxUpdates == 2

\* ------------------------------------------------ configuration (__init__)
action_dim == 2
steps_per_episode == 2
replay_buffer_size == 2
GammaNum == 1
GammaDen == 2
HiddenMod == 3

Actions == 0 .. (action_dim - 1)

\* ---------------------------------------------------------------- helpers
At0(s, i) == s[i + 1]

RECURSIVE SumSeq(_)
SumSeq(s) == IF s = <<>> THEN 0 ELSE Head(s) + SumSeq(Tail(s))

Sign(x) == IF x > 0 THEN 1 ELSE IF x < 0 THEN 0 - 1 ELSE 0

MaxOf(s) == CHOOSE m \in {s[i] : i \in DOMAIN s} : \A i \in DOMAIN s : s[i] <= m

\* torch.Tensor.argmax on the flattened (1, action_dim) tensor: the 0-based
\* index of the first maximal value.
ArgMaxLast(qs) ==
    (CHOOSE i \in DOMAIN qs :
        /\ qs[i] = MaxOf(qs)
        /\ \A j \in DOMAIN qs : qs[j] = MaxOf(qs) => j <= i) - 1

ArgMax(qs) ==
    (CHOOSE i \in DOMAIN qs :
        /\ qs[i] = MaxOf(qs)
        /\ \A j \in DOMAIN qs : qs[j] = MaxOf(qs) => i <= j) - 1

\* ------------------------------------------------ value network (stub)
\* A parameter tensor: ndim = len(p.data.shape); connected = it takes part in
\* the loss graph, so backward() gives it a gradient.
Architectures ==
    << << [ndim |-> 2, connected |-> TRUE], [ndim |-> 1, connected |-> TRUE] >>,
       << [ndim |-> 2, connected |-> TRUE], [ndim |-> 1, connected |-> FALSE] >>,
       << [ndim |-> 1, connected |-> TRUE] >>,
       << [ndim |-> 2, connected |-> FALSE] >> >>

\* init_hidden_states(bsize): zero (hidden, cell) tensors for bsize sequences.
init_hidden_states(bsize) ==
    [hidden |-> [b \in 1 .. bsize |-> 0], cell |-> [b \in 1 .. bsize |-> 0]]

\* One recurrent step of one sequence.
CellStep(params, audio, video, hc) ==
    LET c == (hc.cell + audio + 2 * video) % HiddenMod
        h == (hc.hidden + params[1] * c) % HiddenMod
    IN  [hidden |-> h, cell |-> c]

RECURSIVE Unroll(_, _, _, _)
Unroll(params, audio, video, hc) ==
    IF audio = <<>> THEN hc
    ELSE Unroll(params, Tail(audio), Tail(video),
                CellStep(params, Head(audio), Head(video), hc))

\* Q-value head applied to the hidden state after the last time step.
QHead(params, h) ==
    [i \in 1 .. action_dim |-> (h * i + params[Len(params)] * (i - 1)) % HiddenMod]

\* forward(audio, video, batch_size, time_step, hidden_state, cell_state):
\* q-values of shape (batch_size, action_dim) and the new (hidden, cell).
Forward(params, audio, video, bsize, tstep, hidden, cell) ==
    LET out == [b \in 1 .. bsize |->
                  Unroll(params, SubSeq(audio[b], 1, tstep), SubSeq(video[b], 1, tstep),
                         [hidden |-> hidden[b], cell |-> cell[b]])]
    IN  [q |-> [b \in 1 .. bsize |-> QHead(params, out[b].hidden)],
         hidden |-> [b \in 1 .. bsize |-> out[b].hidden],
         cell |-> [b \in 1 .. bsize |-> out[b].cell]]

\* ------------------------------------------------ environment (stub)
EnvReset == [sound |-> 0, vision |-> 1]

\* Action 0 moves on to the other observation, any other action ends the
\* episode; the reward is 1 when the action names the sound heard.
EnvStep(st, action) ==
    LET s == IF action = 0 THEN 1 - st.sound ELSE st.sound
    IN  [next_state |-> [sound |-> s, vision |-> 1 - s],
         reward |-> IF action = st.sound THEN 1 ELSE 0,
         done |-> action # 0]

\* ------------------------------------------------ transitions, replay buffer
\* BimodalTransition: a named tuple, read back positionally by zip(*episode).
BimodalTransition(audio, video, action, next_audio, next_video, reward, done) ==
    << audio, video, action, next_audio, next_video, reward, done >>

\* append_transition_to_episode(episode, state, action, next_state, reward, done)
append_transition_to_episode(ep, st, action, next_state, reward, done) ==
    Append(ep, BimodalTransition(st.sound, st.vision, action,
                                 next_state.sound, next_state.vision, reward, done))

\* ReplayBuffer.add_episode: first-in-first-out once the capacity is reached.
add_episode(buf, ep) ==
    IF Len(buf) >= replay_buffer_size THEN Append(Tail(buf), ep) ELSE Append(buf, ep)

\* Episodes a window of length w can be drawn from.
Eligible(buf, w) == {i \in 1 .. Len(buf) : Len(buf[i]) >= w}

Windows(ep, w) == {SubSeq(ep, s + 1, s + w) : s \in 0 .. (Len(ep) - w)}

\* ReplayBuffer.get_batch(batch_size, time_step): InsufficientDataError when
\* fewer than bsize episodes are eligible, else the possible batches.
get_batch(buf, bsize, w) ==
    IF Cardinality(Eligible(buf, w)) < bsize
    THEN [exc |-> "InsufficientDataError", batches |-> {}]
    ELSE [exc |-> "none",
          batches |-> [1 .. bsize -> UNION {Windows(buf[i], w) : i \in Eligible(buf, w)}]]

\* ------------------------------------------------ update_policy_net, pieces
\* Lines 142-166: zip(*episode), np.asarray, np.stack for one field.
Stack(batch, field) ==
    [b \in 1 .. Len(batch) |-> [t \in 1 .. Len(batch[b]) |-> batch[b][t][field]]]

\* torch.FloatTensor of the done flags.
FloatOfDone(d) == IF d THEN 1 ELSE 0

\* Line 121: the pre-check that skips the update.
SkipsUpdate(buf, bsize) == Len(buf) < bsize

\* Lines 124-129: the hidden states the two training forward passes start
\* from, one made by each network for bsize sequences.
TrainingHiddenFromRollout(bsize, rollout_hidden, rollout_cell) ==
    LET shared == [made_by |-> "rollout",
                   hidden |-> [b \in 1 .. bsize |-> rollout_hidden[1]],
                   cell |-> [b \in 1 .. bsize |-> rollout_cell[1]]]
    IN  [policy |-> shared, target |-> shared]

TrainingHidden(bsize, rollout_hidden, rollout_cell) ==
    [policy |-> [made_by |-> "policy_net",
                 hidden |-> init_hidden_states(bsize).hidden,
                 cell |-> init_hidden_states(bsize).cell],
     target |-> [made_by |-> "target_net",
                 hidden |-> init_hidden_states(bsize).hidden,
                 cell |-> init_hidden_states(bsize).cell]]

\* Line 201: next_q_values.detach().max(dim=1)[0]
QNextMax(next_q_values) == [b \in DOMAIN next_q_values |-> MaxOf(next_q_values[b])]

\* Lines 202-205, on the GammaDen scale.
ExpectedQValuesFirstStep(rewards, dones, q_next_max, tstep) ==
    [b \in DOMAIN rewards |->
        GammaDen * At0(rewards[b], 0)
        + (1 - FloatOfDone(At0(dones[b], 0))) * GammaNum * q_next_max[b]]

ExpectedQValues(rewards, dones, q_next_max, tstep) ==
    [b \in DOMAIN rewards |->
        GammaDen * At0(rewards[b], tstep - 1)
        + (1 - FloatOfDone(At0(dones[b], tstep - 1))) * GammaNum * q_next_max[b]]

\* Lines 206-208: q_values.gather(dim=1, index=actions[:, time_step - 1])
Gather(q_values, actions, tstep) ==
    [b \in DOMAIN q_values |-> At0(q_values[b], At0(actions[b], tstep - 1))]

\* self.loss_fn (mean squared error): the sum of the squared residuals on the
\* GammaDen scale; the mean divides it by batch_size * GammaDen^2.
Residuals(q_value, expected) ==
    [b \in DOMAIN q_value |-> GammaDen * q_value[b] - expected[b]]

loss_fn(q_value, expected) ==
    SumSeq([b \in DOMAIN q_value |->
              Residuals(q_value, expected)[b] * Residuals(q_value, expected)[b]])

\* loss.backward(): a gradient for every parameter in the loss graph, None
\* (the empty sequence) for the others. A gradient is carried as its direction.
Backward(a, q_value, expected) ==
    [i \in 1 .. Len(a) |->
        IF a[i].connected THEN << Sign(SumSeq(Residuals(q_value, expected))) >> ELSE << >>]

NoGrad(a) == [i \in 1 .. Len(a) |-> << >>]

\* Lines 215-217: the three parameter lists of the statistics.
all_parameters(a) == {i \in 1 .. Len(a) : TRUE}
bias_parameters(a) == {i \in 1 .. Len(a) : a[i].ndim > 1}
gradient_parameters(g) == {i \in 1 .. Len(g) : g[i] # << >>}

\* Lines 219-235: every average divides by the length of its list.
StatisticsExc(a, g) ==
    IF Cardinality(all_parameters(a)) = 0 THEN "ZeroDivisionError"
    ELSE IF Cardinality(bias_parameters(a)) = 0 THEN "ZeroDivisionError"
    ELSE IF Cardinality(gradient_parameters(g)) = 0 THEN "ZeroDivisionError"
    ELSE "none"

\* optimizer.step() of AdamW over policy_net.parameters(): a parameter whose
\* gradient is None is left alone, the others move against their gradient.
OptimizerStep(params, g) ==
    [i \in 1 .. Len(params) |->
        IF g[i] = << >> THEN params[i] ELSE params[i] - Sign(g[i][1])]

\* ------------------------------------------------------------------ state
VARIABLES
    batch_size,      \* self.batch_size
    time_step,       \* self.time_step, the window length
    arch,            \* the parameter tensors of DuelingBimodalDRQN
    policy_params,   \* self.policy_net parameters (p.data)
    target_params,   \* self.target_net parameters
    grad,            \* p.grad of the policy parameters, << >> for None
    opt_steps,       \* optimizer state: steps applied
    training,        \* self.policy_net.training
    replay_buffer,   \* self.replay_buffer, oldest episode first
    episode,         \* the episode being rolled out
    state,           \* the current observation
    hidden_state,    \* the rollout's rolling hidden state
    cell_state,      \* the rollout's rolling cell state
    phase,           \* control loop: "act", "env", "end"
    halted,          \* an exception ended the training run
    call             \* the last call: what it ran, returned and raised

vars == << batch_size, time_step, arch, policy_params, target_params, grad,
           opt_steps, training, replay_buffer, episode, state, hidden_state,
           cell_state, phase, halted, call >>

config == << batch_size, time_step, arch >>
rollout == << episode, state, hidden_state, cell_state, phase >>

NoCall ==
    [op |-> "none", exc |-> "none", returned |-> FALSE,
     ret_action |-> 0 - 1, ret_hidden |-> << >>, ret_cell |-> << >>, ret_loss |-> << >>,
     logger_ok |-> TRUE, logged |-> << >>,
     forward_training |-> << >>, current_qs |-> << >>,
     net_hidden |-> << >>, net_cell |-> << >>,
     in_hidden |-> << >>, in_cell |-> << >>,
     batch_episodes |-> << >>, train_hidden |-> << >>,
     next_q_values |-> << >>, expected_q_values |-> << >>, q_value |-> << >>,
     zero_grad |-> FALSE, backward |-> FALSE, steps |-> 0,
     before |-> << >>]

\* The training state an update may touch, as it was when the call began.
Snapshot ==
    [policy_params |-> policy_params, target_params |-> target_params,
     grad |-> grad, opt_steps |-> opt_steps,
     hidden_state |-> hidden_state, cell_state |-> cell_state,
     replay_buffer |-> replay_buffer]

\* __init__: two separately constructed networks, an optimizer over the policy
\* network's parameters, an empty replay buffer; the control loop resets the
\* environment and the rolling hidden state.
Init ==
    /\ batch_size \in 1 .. MaxBatch
    /\ time_step \in 1 .. MaxWindow
    /\ arch \in {Architectures[k] : k \in DOMAIN Architectures}
    /\ policy_params = [i \in 1 .. Len(arch) |-> 1]
    /\ target_params = [i \in 1 .. Len(arch) |-> 2]
    /\ grad = NoGrad(arch)
    /\ opt_steps = 0
    /\ training = TRUE
    /\ replay_buffer = << >>
    /\ episode = << >>
    /\ state = EnvReset
    /\ hidden_state = init_hidden_states(1).hidden
    /\ cell_state = init_hidden_states(1).cell
    /\ phase = "act"
    /\ halted = FALSE
    /\ call = NoCall

\* ------------------------------------------------ get_next_hidden_state
\* Lines 95-118. forward_ok: the network's forward pass returns rather than
\* raises; logger_ok: logger.delay_log returns rather than raises.
get_next_hidden_state(params, st, hidden, cell, forward_ok, logger_ok) ==
    LET out == Forward(params, << << st.sound >> >>, << << st.vision >> >>,
                       1, 1, hidden, cell)
        eval_mode == FALSE    \* line 99: self.policy_net.eval()
        train_mode == TRUE    \* line 109: self.policy_net.train()
        c0  == [NoCall EXCEPT !.op = "get_next_hidden_state",
                              !.logger_ok = logger_ok,
                              !.in_hidden = hidden, !.in_cell = cell]
    IN  IF ~forward_ok
        THEN [training |-> eval_mode,
              call |-> [c0 EXCEPT !.exc = "ForwardError",
                                  !.forward_training = << eval_mode >>]]
        ELSE LET c1 == [c0 EXCEPT !.forward_training = << eval_mode >>,
                                  !.current_qs = out.q[1],
                                  !.net_hidden = out.hidden,
                                  !.net_cell = out.cell]
             IN  IF ~logger_ok
                 THEN [training |-> train_mode, call |-> [c1 EXCEPT !.exc = "LoggerError"]]
                 ELSE [training |-> train_mode,
                       call |-> [c1 EXCEPT !.returned = TRUE,
                                           !.logged = << "activation_ratio" >>,
                                           !.ret_action = ArgMax(out.q[1]),
                                           !.ret_hidden = out.hidden,
                                           !.ret_cell = out.cell]]

\* The control loop asks for an action and keeps the returned hidden state.
SelectAction ==
    /\ ~halted
    /\ phase = "act"
    /\ \E forward_ok \in BOOLEAN, logger_ok \in BOOLEAN :
        LET r == get_next_hidden_state(policy_params, state, hidden_state, cell_state,
                                       forward_ok, logger_ok)
        IN  /\ training' = r.training
            /\ call' = r.call
            /\ IF r.call.returned
               THEN /\ hidden_state' = r.call.ret_hidden
                    /\ cell_state' = r.call.ret_cell
                    /\ phase' = "env"
                    /\ halted' = FALSE
               ELSE /\ UNCHANGED << hidden_state, cell_state, phase >>
                    /\ halted' = TRUE
    /\ UNCHANGED << config, policy_params, target_params, grad, opt_steps,
                    replay_buffer, episode, state >>

\* The environment answers the (greedy or exploratory) action; the transition
\* is appended to the episode (lines 250-261).
EnvStepAppend ==
    /\ ~halted
    /\ phase = "env"
    /\ \E action \in Actions :
        LET e == EnvStep(state, action)
        IN  /\ episode' = append_transition_to_episode(episode, state, action,
                                                       e.next_state, e.reward, e.done)
            /\ state' = e.next_state
            /\ phase' = IF e.done \/ Len(episode) + 1 >= steps_per_episode
                        THEN "end" ELSE "act"
    /\ call' = [NoCall EXCEPT !.op = "append_transition_to_episode", !.returned = TRUE]
    /\ UNCHANGED << config, policy_params, target_params, grad, opt_steps, training,
                    replay_buffer, hidden_state, cell_state, halted >>

\* The finished episode goes to the replay buffer; the next rollout starts
\* from a reset environment and a zero hidden state for one sequence.
EndEpisode ==
    /\ ~halted
    /\ phase = "end"
    /\ replay_buffer' = add_episode(replay_buffer, episode)
    /\ episode' = << >>
    /\ state' = EnvReset
    /\ hidden_state' = init_hidden_states(1).hidden
    /\ cell_state' = init_hidden_states(1).cell
    /\ phase' = "act"
    /\ call' = [NoCall EXCEPT !.op = "add_episode", !.returned = TRUE]
    /\ UNCHANGED << config, policy_params, target_params, grad, opt_steps, training,
                    halted >>

\* Hard target synchronisation by the control loop, after a training step.
SyncTarget ==
    /\ ~halted
    /\ phase = "act"
    /\ call.op = "update_policy_net"
    /\ call.steps = 1
    /\ target_params' = policy_params
    /\ call' = [NoCall EXCEPT !.op = "sync_target", !.returned = TRUE]
    /\ UNCHANGED << config, policy_params, grad, opt_steps, training, replay_buffer,
                    rollout, halted >>

\* ------------------------------------------------ update_policy_net
\* Lines 120-248 for one sampled batch. The result names the new training
\* state and the record of the call.
update_policy_net(batch, logger_ok) ==
    LET th == TrainingHidden(batch_size, hidden_state, cell_state)
        \* zip(*episode): audio, video, action, next audio, next video, reward, done
        q_values == Forward(policy_params, Stack(batch, 1), Stack(batch, 2),
                            batch_size, time_step, th.policy.hidden, th.policy.cell).q
        next_q_values == Forward(target_params, Stack(batch, 4), Stack(batch, 5),
                                 batch_size, time_step,
                                 th.target.hidden, th.target.cell).q
        expected_q_values == ExpectedQValues(Stack(batch, 6), Stack(batch, 7),
                                             QNextMax(next_q_values), time_step)
        q_value == Gather(q_values, Stack(batch, 3), time_step)
        loss == loss_fn(q_value, expected_q_values)
        g == Backward(arch, q_value, expected_q_values)
        c0 == [NoCall EXCEPT !.op = "update_policy_net", !.logger_ok = logger_ok,
                             !.before = Snapshot, !.train_hidden = th,
                             !.batch_episodes = batch,
                             !.forward_training = << training >>,
                             !.next_q_values = next_q_values,
                             !.expected_q_values = expected_q_values,
                             !.q_value = q_value,
                             !.zero_grad = TRUE]
    IN  IF gradient_parameters(g) = {}
        THEN \* line 213: nothing in the loss graph requires a gradient
             [params |-> policy_params, grad |-> NoGrad(arch), opt_steps |-> opt_steps,
              call |-> [c0 EXCEPT !.exc = "RuntimeError"]]
        ELSE IF StatisticsExc(arch, g) # "none"
        THEN [params |-> policy_params, grad |-> g, opt_steps |-> opt_steps,
              call |-> [c0 EXCEPT !.exc = StatisticsExc(arch, g), !.backward = TRUE]]
        ELSE IF ~logger_ok
        THEN [params |-> policy_params, grad |-> g, opt_steps |-> opt_steps,
              call |-> [c0 EXCEPT !.exc = "LoggerError", !.backward = TRUE]]
        ELSE [params |-> OptimizerStep(policy_params, g), grad |-> g,
              opt_steps |-> opt_steps + 1,
              call |-> [c0 EXCEPT !.backward = TRUE, !.steps = 1, !.returned = TRUE,
                                  !.logged = << [weight |-> all_parameters(arch),
                                                 bias |-> bias_parameters(arch),
                                                 gradient |-> gradient_parameters(g)] >>,
                                  !.ret_loss = << loss >>]]

\* Line 121-122: not enough episodes, the update is skipped.
UpdateSkipped ==
    /\ ~halted
    /\ phase = "act"
    /\ opt_steps < MaxUpdates
    /\ SkipsUpdate(replay_buffer, batch_size)
    /\ call' = [NoCall EXCEPT !.op = "update_policy_net", !.before = Snapshot,
                              !.returned = TRUE]
    /\ UNCHANGED << config, policy_params, target_params, grad, opt_steps, training,
                    replay_buffer, rollout, halted >>

\* Lines 124-133: get_batch raises; the control loop treats it as "skip
\* this step" and goes on.
UpdateInsufficientData ==
    /\ ~halted
    /\ phase = "act"
    /\ opt_steps < MaxUpdates
    /\ ~SkipsUpdate(replay_buffer, batch_size)
    /\ get_batch(replay_buffer, batch_size, time_step).exc # "none"
    /\ call' = [NoCall EXCEPT !.op = "update_policy_net", !.before = Snapshot,
                              !.train_hidden =
                                  TrainingHidden(batch_size, hidden_state, cell_state),
                              !.exc = get_batch(replay_buffer, batch_size, time_step).exc]
    /\ UNCHANGED << config, policy_params, target_params, grad, opt_steps, training,
                    replay_buffer, rollout, halted >>

\* Lines 124-248 with a sampled batch.
UpdateWithBatch ==
    /\ ~halted
    /\ phase = "act"
    /\ opt_steps < MaxUpdates
    /\ ~SkipsUpdate(replay_buffer, batch_size)
    /\ get_batch(replay_buffer, batch_size, time_step).exc = "none"
    /\ \E batch \in get_batch(replay_buffer, batch_size, time_step).batches,
          logger_ok \in BOOLEAN :
        LET r == update_policy_net(batch, logger_ok)
        IN  /\ policy_params' = r.params
            /\ grad' = r.grad
            /\ opt_steps' = r.opt_steps
            /\ call' = r.call
            /\ halted' = (r.call.exc # "none")
    /\ UNCHANGED << config, target_params, training, replay_buffer, rollout >>

Next ==
    \/ SelectAction
    \/ EnvStepAppend
    \/ EndEpisode
    \/ SyncTarget
    \/ UpdateSkipped
    \/ UpdateInsufficientData
    \/ UpdateWithBatch

Spec == Init /\ [][Next]_vars

\* ------------------------------------------------------------ properties
IsUpdate == call.op = "update_policy_net"
IsSelect == call.op = "get_next_hidden_state"

\* The update got as far as its two forward passes.
UpdateForwardRan == IsUpdate /\ call.next_q_values # << >>

TrainingStateUnchanged ==
    /\ policy_params = call.before.policy_params
    /\ target_params = call.before.target_params
    /\ grad = call.before.grad
    /\ opt_steps = call.before.opt_steps

\* C1: an update called while fewer than batch_size episodes are eligible
\* (length >= time_step) returns None and leaves parameters, gradients,
\* optimizer state and the log untouched.
C1_SkipWhenFewEligible ==
    (IsUpdate /\ Cardinality(Eligible(call.before.replay_buffer, time_step)) < batch_size)
        => /\ call.returned
           /\ call.ret_loss = << >>
           /\ call.logged = << >>
           /\ TrainingStateUnchanged

\* C2: no InsufficientDataError of the replay buffer's sampling leaves
\* update_policy_net.
C2_NoInsufficientDataEscapes ==
    IsUpdate => call.exc # "InsufficientDataError"

\* The target network's Q-values for one window of next observations, unrolled
\* on its own from a zero hidden state.
TargetQOfWindow(w) ==
    Forward(call.before.target_params,
            << [t \in 1 .. Len(w) |-> w[t][4]] >>, << [t \in 1 .. Len(w) |-> w[t][5]] >>,
            1, Len(w), << 0 >>, << 0 >>).q[1]

C4_GreedyFirstMax ==
    (IsSelect /\ call.returned) =>
        LET qs == call.current_qs
            a == call.ret_action
            out == Forward(policy_params, << << state.sound >> >>, << << state.vision >> >>,
                           1, 1, call.in_hidden, call.in_cell)
        IN  /\ a \in 0 .. (Len(qs) - 1)
            /\ \A j \in DOMAIN qs : qs[j] <= qs[a + 1]
            /\ \A j \in 1 .. a : qs[j] < qs[a + 1]
            /\ qs = out.q[1]
            /\ call.ret_hidden = out.hidden
            /\ call.ret_cell = out.cell

\* An action was returned for a Q-value vector whose maximum occurs twice.
C4_Witness ==
    /\ IsSelect
    /\ call.returned
    /\ \E i, j \in DOMAIN call.current_qs :
          /\ i < j
          /\ call.current_qs[i] = MaxOf(call.current_qs)
          /\ call.current_qs[j] = MaxOf(call.current_qs)

\* C5: the forward pass of action selection runs in evaluation mode, the
\* network is in training mode when the call ends, however it ends, and every
\* update's forward pass runs in training mode.
C5_TrainingModeRestored ==
    /\ IsSelect => (call.forward_training = << FALSE >> /\ training)
    /\ UpdateForwardRan => call.forward_training = << TRUE >>

\* C6: an update that is not skipped applies exactly one optimizer step, to
\* the policy parameters only; no update changes the target parameters.
C6_OneStepPolicyOnly ==
    IsUpdate =>
        /\ target_params = call.before.target_params
        /\ ~SkipsUpdate(call.before.replay_buffer, batch_size) =>
              (call.steps = 1 /\ opt_steps = call.before.opt_steps + 1)

\* C7: the statistics never divide by zero, also when no parameter is
\* multi-dimensional or none has a gradient; a parameter without a gradient
\* is left out of the gradient statistics.
C7_StatisticsGuarded ==
    IsUpdate =>
        /\ call.exc # "ZeroDivisionError"
        /\ call.logged # << >> =>
              call.logged[1].gradient = {i \in 1 .. Len(arch) : arch[i].connected}

\* C8: the outcome of a call does not depend on the logger: once the forward
\* pass of action selection has returned, the action and hidden state are
\* returned; once the statistics of an update are computed, the optimizer
\* step is applied and the loss returned.
C8_LoggerNotOnPath ==
    /\ (IsSelect /\ call.current_qs # << >>) =>
          (call.returned /\ call.ret_action = ArgMax(call.current_qs))
    /\ (IsUpdate /\ call.backward /\ StatisticsExc(arch, grad) = "none") =>
          (call.returned /\ call.steps = 1)

\* C9: an update changes no training state at all, or runs zero-gradients,
\* backpropagation, statistics and one optimizer step to the end.
C9_UpdateAllOrNothing ==
    IsUpdate =>
        \/ (~call.zero_grad /\ TrainingStateUnchanged)
        \/ (call.zero_grad /\ call.backward /\ call.logged # << >> /\ call.steps = 1)

\* What the last call did with hidden states: the training ones are fresh,
\* the rollout's one is what the call found or what action selection returned.
C10_TrainingHiddenFresh ==
    /\ (IsUpdate /\ ~SkipsUpdate(call.before.replay_buffer, batch_size)) =>
          /\ call.train_hidden.policy.hidden = [b \in 1 .. batch_size |-> 0]
          /\ call.train_hidden.policy.cell = [b \in 1 .. batch_size |-> 0]
          /\ call.train_hidden.target.hidden = [b \in 1 .. batch_size |-> 0]
          /\ call.train_hidden.target.cell = [b \in 1 .. batch_size |-> 0]
          /\ call.train_hidden.policy.made_by # call.train_hidden.target.made_by
          /\ call.train_hidden.policy.made_by # "rollout"
          /\ call.train_hidden.target.made_by # "rollout"
    /\ IsUpdate =>
          /\ hidden_state = call.before.hidden_state
          /\ cell_state = call.before.cell_state
    /\ (IsSelect /\ call.returned) =>
          /\ hidden_state = call.ret_hidden
          /\ cell_state = call.ret_cell

\* A step hands action selection the rollout's hidden state, and changes the
\* rollout's hidden state only by action selection or by an episode reset.
C10_RolloutHiddenStep ==
    /\ (call'.op = "get_next_hidden_state") =>
          (call'.in_hidden = hidden_state /\ call'.in_cell = cell_state)
    /\ (<< hidden_state, cell_state >>' # << hidden_state, cell_state >>) =>
          \/ /\ call'.op = "get_next_hidden_state"
             /\ hidden_state' = call'.ret_hidden
             /\ cell_state' = call'.ret_cell
          \/ /\ call'.op = "add_episode"
             /\ hidden_state' = << 0 >>
             /\ cell_state' = << 0 >>

\* C10: the two training forward passes start from two separately made zero
\* hidden states for batch_size sequences; an update leaves the rollout's
\* hidden state alone, which changes only to what action selection returned
\* or to the reset state of a new episode.
C10_HiddenStatesSeparate ==
    [](C10_TrainingHiddenFresh) /\ [][C10_RolloutHiddenStep]_vars

\* An update for two sequences ran its forward passes while the rollout's
\* hidden state was not zero.
C10_Witness ==
    /\ UpdateForwardRan
    /\ call.returned
    /\ batch_size > 1
    /\ hidden_state # << 0 >>

====
